---------------------------- MODULE Spec2Model ----------------------------
(***************************************************************************)
(* libuntar: the tar header scanner (tarGetEntries) and the payload        *)
(* extractor (tarGetEntryData) of src/libuntar.js, over byte buffers, and  *)
(* untgz of src/untgz.ts, which scans a decompressed archive.              *)
(*                                                                         *)
(* A buffer is a sequence of bytes (0..255); buffer position p of the      *)
(* JavaScript code is element p + 1 of the sequence.  A decoded string is  *)
(* a sequence of code points.                                              *)
(***************************************************************************)
EXTENDS Integers, Sequences, FiniteSets, TLC

(***************************************************************************)
(* Program constants (src/libuntar.js lines 5-14).                         *)
(***************************************************************************)
TAR_TYPE_FILE == 0
TAR_TYPE_DIR == 5
TAR_HEADER_SIZE == 512
TAR_TYPE_OFFSET == 156
TAR_TYPE_SIZE == 1
TAR_SIZE_OFFSET == 124
TAR_SIZE_SIZE == 12
TAR_NAME_OFFSET == 0
TAR_NAME_SIZE == 100

(***************************************************************************)
(* JavaScript numbers.  The code computes with IEEE doubles; the values it *)
(* can meet here are integers and NaN (parseInt of a field with no digits, *)
(* and everything computed from it).  The numbers of the model are the     *)
(* integers from -(2^31 - 1) to 2^31 - 1, which the doubles hold exactly;  *)
(* an operation whose result lies outside them stops the evaluation with   *)
(* an overflow.  NaN is -2^31: parseInt builds the digits' value as a      *)
(* number of that range and then applies the sign, so it never gives       *)
(* -2^31, and a sum that would be -2^31 overflows.  -0 is identified with  *)
(* 0 (the code never divides by a size and never prints one).              *)
(***************************************************************************)
NaN == -2147483647 - 1

IsNaN(x) == x = NaN

\* a + b of JavaScript numbers; a sum of -2^31 is no number of the model and
\* overflows as the sums below it do
Plus(a, b) ==
    IF IsNaN(a) \/ IsNaN(b) THEN NaN
    ELSE IF a + b = NaN THEN (a + b) - 1
    ELSE a + b

\* a < b of JavaScript numbers: every comparison with NaN is false
Less(a, b) == ~IsNaN(a) /\ ~IsNaN(b) /\ a < b

\* a % b of JavaScript numbers, b > 0: the result has the sign of a
Rem(a, b) == IF IsNaN(a) THEN NaN
             ELSE IF a >= 0 THEN a % b ELSE -((-a) % b)

\* (a / b) | 0, b > 0: the quotient truncated towards zero
TruncDiv(a, b) == IF IsNaN(a) THEN 0
                  ELSE IF a >= 0 THEN a \div b ELSE -((-a) \div b)

Min(a, b) == IF a < b THEN a ELSE b
Max(a, b) == IF a > b THEN a ELSE b

\* ToIntegerOrInfinity of an index argument: NaN becomes 0
ToIntegerOrInfinity(x) == IF IsNaN(x) THEN 0 ELSE x

(***************************************************************************)
(* Uint8Array.prototype.slice(start, end): a negative index counts from    *)
(* the end of the array, both indices are clamped to [0, length], and the  *)
(* result is empty when the clamped start is not before the clamped end.   *)
(***************************************************************************)
RelativeIndex(rel, len) == IF rel < 0 THEN Max(len + rel, 0) ELSE Min(rel, len)

slice(view, start, end) ==
    LET len   == Len(view)
        k     == RelativeIndex(ToIntegerOrInfinity(start), len)
        final == RelativeIndex(ToIntegerOrInfinity(end), len)
        count == Max(final - k, 0)
    IN  [i \in 1..count |-> view[k + i]]

\* a mutant of _tarRead: the end index is the size, not offset + size
_tarReadNoOffset(view, offset, size) == slice(view, offset, size)

\* _tarRead(view, offset, size)
_tarRead(view, offset, size) == slice(view, offset, Plus(offset, size))

(***************************************************************************)
(* The concatenation of the sequences pieces[lo], ..., pieces[hi], by      *)
(* halving the range.                                                      *)
(***************************************************************************)
RECURSIVE Flatten(_, _, _)
Flatten(pieces, lo, hi) ==
    IF lo > hi THEN <<>>
    ELSE IF lo = hi THEN pieces[lo]
    ELSE LET mid == (lo + hi) \div 2
         IN  Flatten(pieces, lo, mid) \o Flatten(pieces, mid + 1, hi)

(***************************************************************************)
(* new TextDecoder().decode(bytes): the UTF-8 decoder.  An ill-formed      *)
(* sequence yields U+FFFD (65533) and the byte that ended it is decoded    *)
(* again; a leading byte order mark (U+FEFF, 65279) is dropped.  A lead    *)
(* byte is never a continuation byte, so the decoder always takes it as    *)
(* the start of a sequence, and what the decoder does with byte i follows  *)
(* from the three bytes before it.  A code point above U+FFFF is one       *)
(* element here and two UTF-16 units in the JavaScript string; the code    *)
(* only compares the length with 0.                                        *)
(***************************************************************************)
IsLead(x) == x >= 194 /\ x <= 244

\* the number of bytes of the sequence a lead byte starts
Utf8Needed(x) == IF x <= 223 THEN 2 ELSE IF x <= 239 THEN 3 ELSE 4

\* whether x can be byte k (k >= 1) after the lead byte
IsContinuation(lead, k, x) ==
    IF k = 1
    THEN /\ x >= (IF lead = 224 THEN 160 ELSE IF lead = 240 THEN 144 ELSE 128)
         /\ x <= (IF lead = 237 THEN 159 ELSE IF lead = 244 THEN 143 ELSE 191)
    ELSE x >= 128 /\ x <= 191

\* the position of the lead byte of the sequence still open before byte i
\* is read (i may be Len(b) + 1, the end), or 0 when none is open
Utf8Open(b, i) ==
    LET open == { j \in (IF i > 3 THEN i - 3 ELSE 1)..(i - 1) :
                    /\ IsLead(b[j])
                    /\ i - j < Utf8Needed(b[j])
                    /\ \A k \in 1..(i - j - 1) : IsContinuation(b[j], k, b[j + k]) }
    IN  IF open = {} THEN 0 ELSE CHOOSE j \in open : TRUE

Utf8CodePoint(b, j) ==
    LET n == Utf8Needed(b[j])
    IN  IF n = 2 THEN (b[j] % 32) * 64 + (b[j + 1] % 64)
        ELSE IF n = 3
        THEN (b[j] % 16) * 4096 + (b[j + 1] % 64) * 64 + (b[j + 2] % 64)
        ELSE (b[j] % 8) * 262144 + (b[j + 1] % 64) * 4096
                + (b[j + 2] % 64) * 64 + (b[j + 3] % 64)

\* what a byte read with no sequence open emits
Utf8Fresh(x) ==
    IF x <= 127 THEN <<x>> ELSE IF IsLead(x) THEN <<>> ELSE <<65533>>

\* what reading byte i emits
Utf8Emit(b, i) ==
    LET j == Utf8Open(b, i)
    IN  IF j = 0 THEN Utf8Fresh(b[i])
        ELSE IF IsContinuation(b[j], i - j, b[i])
        THEN IF i - j = Utf8Needed(b[j]) - 1 THEN <<Utf8CodePoint(b, j)>> ELSE <<>>
        ELSE <<65533>> \o Utf8Fresh(b[i])

TextDecoderUtf8(bytes) ==
    LET pieces == [i \in 1..(Len(bytes) + 1) |->
                      IF i <= Len(bytes) THEN Utf8Emit(bytes, i)
                      ELSE IF Utf8Open(bytes, i) # 0 THEN <<65533>> ELSE <<>>]
        out == Flatten(pieces, 1, Len(bytes) + 1)
    IN  IF Len(out) > 0 /\ out[1] = 65279 THEN Tail(out) ELSE out

(***************************************************************************)
(* new TextDecoder('ascii').decode(bytes), the whole field in one call:    *)
(* one code point per byte, the code point whose number is the byte.  (The *)
(* label 'ascii' names windows-1252, whose index gives bytes 128..159      *)
(* other code points; the decoder of the runtime the code is run on, Node  *)
(* 20 with ICU, decodes a one-call input byte for byte, those bytes too.   *)
(* None of the code points in question is a digit, a sign or white space.) *)
(***************************************************************************)
TextDecoderAscii(bytes) == [i \in 1..Len(bytes) |-> bytes[i]]

\* string.replace(/\0/g, ''): every NUL is removed, wherever it stands
ReplaceNul(str) == SelectSeq(str, LAMBDA c : c # 0)

\* the white space and line terminators of String.prototype.trim and parseInt
IsWhiteSpace(c) ==
    \/ c \in {9, 10, 11, 12, 13, 32, 160, 5760, 8232, 8233, 8239, 8287, 12288, 65279}
    \/ (c >= 8192 /\ c <= 8202)

RECURSIVE trimStart(_)
trimStart(str) ==
    IF Len(str) > 0 /\ IsWhiteSpace(str[1]) THEN trimStart(Tail(str)) ELSE str

RECURSIVE trimEnd(_)
trimEnd(str) ==
    IF Len(str) > 0 /\ IsWhiteSpace(str[Len(str)])
    THEN trimEnd(SubSeq(str, 1, Len(str) - 1))
    ELSE str

trim(str) == trimEnd(trimStart(str))

(***************************************************************************)
(* parseInt(string, radix) for a radix of at most 10 (the code passes 8):  *)
(* leading white space is skipped, one sign is taken, then the longest     *)
(* run of digits below the radix is read; no digit at all gives NaN.       *)
(***************************************************************************)
IsDigit(c, radix) == c >= 48 /\ c < 48 + radix

RECURSIVE DigitsValue(_, _, _, _)
DigitsValue(str, i, radix, acc) ==
    IF i <= Len(str) /\ IsDigit(str[i], radix)
    THEN DigitsValue(str, i + 1, radix, acc * radix + (str[i] - 48))
    ELSE acc

parseInt(string, radix) ==
    LET S      == trimStart(string)
        signed == Len(S) > 0 /\ S[1] \in {43, 45}
        sign   == IF Len(S) > 0 /\ S[1] = 45 THEN -1 ELSE 1
        Z      == IF signed THEN Tail(S) ELSE S
    IN  IF Len(Z) = 0 \/ ~IsDigit(Z[1], radix)
        THEN NaN
        ELSE sign * DigitsValue(Z, 1, radix, 0)

(***************************************************************************)
(* The body of the loop of tarGetEntries (src/libuntar.js lines 25-64),    *)
(* one operator per statement.                                             *)
(***************************************************************************)

\* a mutant of LoopCondition: the header size is left out of the test
LoopConditionNoHeader(view, offset) == Less(offset, Len(view))

\* while (offset + TAR_HEADER_SIZE < view.byteLength)
LoopCondition(view, offset) == Less(Plus(offset, TAR_HEADER_SIZE), Len(view))

\* str without the NULs at its end
StripTrailingNul(str) ==
    LET others == { i \in 1..Len(str) : str[i] # 0 }
        last   == IF others = {} THEN 0
                  ELSE CHOOSE i \in others : \A j \in others : j <= i
    IN  SubSeq(str, 1, last)

\* a mutant of entryName: the name is read up to the type flag
entryNameWide(view, offset) ==
    ReplaceNul(TextDecoderUtf8(
        _tarRead(view, Plus(offset, TAR_NAME_OFFSET), TAR_TYPE_OFFSET)))

\* the name field decoded as UTF-8, with its NULs removed
entryName(view, offset) ==
    ReplaceNul(TextDecoderUtf8(
        _tarRead(view, Plus(offset, TAR_NAME_OFFSET), TAR_NAME_SIZE)))

\* the size field decoded as 'ascii', with its NULs removed, trimmed
entrySizeString(view, offset) ==
    trim(ReplaceNul(TextDecoderAscii(
        _tarRead(view, Plus(offset, TAR_SIZE_OFFSET), TAR_SIZE_SIZE))))

\* a mutant of entrySize: the size field is read as a decimal number
entrySizeDecimal(view, offset) == parseInt(entrySizeString(view, offset), 10)

\* parseInt(entrySizeString, 8)
entrySize(view, offset) == parseInt(entrySizeString(view, offset), 8)

\* entryTypeBytes[0] - 48; element 0 of an empty slice is undefined, and
\* undefined - 48 is NaN
entryType(view, offset) ==
    LET entryTypeBytes == _tarRead(view, Plus(offset, TAR_TYPE_OFFSET), TAR_TYPE_SIZE)
    IN  IF Len(entryTypeBytes) = 0 THEN NaN ELSE entryTypeBytes[1] - 48

\* a mutant of IsEntry: every header is saved, whatever its type
IsEntryAny(type) == TRUE

\* [TAR_TYPE_FILE, TAR_TYPE_DIR].includes(entryType)
IsEntry(type) == type \in {TAR_TYPE_FILE, TAR_TYPE_DIR}

\* the descriptor pushed for a file or a directory
Entry(view, offset) ==
    [ name    |-> entryName(view, offset),
      size    |-> entrySize(view, offset),
      is_file |-> entryType(view, offset) = TAR_TYPE_FILE,
      offset  |-> offset ]

\* a mutant of NextOffset: a block is added even when the offset is aligned
NextOffsetAlwaysAdd(offset, size) ==
    LET advanced == Plus(offset, Plus(size, TAR_HEADER_SIZE))
    IN  IF IsNaN(advanced) THEN NaN
        ELSE (TruncDiv(advanced, TAR_HEADER_SIZE) + 1) * TAR_HEADER_SIZE

\* offset += entrySize + TAR_HEADER_SIZE, then rounded up to a multiple of
\* TAR_HEADER_SIZE when the remainder is positive
NextOffset(offset, size) ==
    LET advanced == Plus(offset, Plus(size, TAR_HEADER_SIZE))
    IN  IF Less(0, Rem(advanced, TAR_HEADER_SIZE))
        THEN (TruncDiv(advanced, TAR_HEADER_SIZE) + 1) * TAR_HEADER_SIZE
        ELSE advanced

\* tarGetEntryData(entry, arrayBuffer)
tarGetEntryData(entry, arrayBuffer) ==
    _tarRead(arrayBuffer, Plus(entry.offset, TAR_HEADER_SIZE), entry.size)

(***************************************************************************)
(* Archive buffers.  createTarBuffer (src/libuntar.test.js lines 232-292)  *)
(* lays out, for each member, a 512-byte header (name at 0, size at 124,   *)
(* checksum at 148, type flag at 156) and the content padded with zeros to *)
(* whole blocks, then the empty blocks of the end-of-archive marker.  A    *)
(* member here carries the bytes written for its name, its size            *)
(* (sizeOctal) and its type flag, and the bytes of its content.  A member  *)
(* whose size bytes are not those createTarBuffer writes for any number    *)
(* stands for a header block made by hand, laid out the same way, so that  *)
(* malformed headers are buffers too; `trailer` is the number of empty     *)
(* blocks written and `cut` the number of bytes missing at the end (a      *)
(* truncated archive).                                                     *)
(***************************************************************************)
Zeros(n) == [i \in 1..n |-> 0]

\* the `width` lowest octal digits of n >= 0, the highest first
OctalDigits(n, width) == [i \in 1..width |-> 48 + ((n \div (8 ^ (width - i))) % 8)]

\* the number of octal digits of n >= 0, one for 0
OctalLength(n) == CHOOSE k \in 1..11 : n \div (8 ^ (k - 1)) \in 1..7 \/ (n = 0 /\ k = 1)

\* n.toString(8): the sign of a negative number, then its digits
toStringOctal(n) ==
    IF n < 0 THEN <<45>> \o OctalDigits(-n, OctalLength(-n))
    ELSE OctalDigits(n, OctalLength(n))

\* string.padStart(width, '0')
padStart(string, width) ==
    IF Len(string) >= width THEN string
    ELSE [i \in 1..(width - Len(string)) |-> 48] \o string

\* sizeOctal: entry.size.toString(8).padStart(11, '0') + ' '
SizeField(n) == padStart(toStringOctal(n), 11) \o <<32>>

\* size bytes written by hand: a sign, octal digits, then NULs to the width
\* of the field
SignedSizeField(digits) == <<45>> \o digits \o Zeros(TAR_SIZE_SIZE - 1 - Len(digits))

RECURSIVE SumRange(_, _, _)
SumRange(bytes, lo, hi) ==
    IF lo > hi THEN 0
    ELSE IF lo = hi THEN bytes[lo]
    ELSE LET mid == (lo + hi) \div 2
         IN  SumRange(bytes, lo, mid) + SumRange(bytes, mid + 1, hi)

SumBytes(bytes) == SumRange(bytes, 1, Len(bytes))

\* the header with the checksum field filled with spaces: the first 100
\* bytes of the name, the bytes of sizeOctal from position 124 on, the type
\* flag, zeros elsewhere
HeaderSpaces(m) ==
    [i \in 1..TAR_HEADER_SIZE |->
        LET p == i - 1 IN
        IF p >= 148 /\ p < 156 THEN 32
        ELSE IF p = 156 THEN m.type
        ELSE IF p >= 124 /\ p < 124 + Len(m.size) THEN m.size[p - 123]
        ELSE IF p < Len(m.name) /\ p < 100 THEN m.name[i]
        ELSE 0]

\* checksumOctal: the sum of the 512 bytes of that header in octal, padded
\* to six digits, then a NUL and a space
ChecksumField(m) == padStart(toStringOctal(SumBytes(HeaderSpaces(m))), 6) \o <<0, 32>>

HeaderBlock(m) ==
    LET header        == HeaderSpaces(m)
        checksumOctal == ChecksumField(m)
    IN  [i \in 1..TAR_HEADER_SIZE |->
            IF i - 1 >= 148 /\ i - 1 < 148 + Len(checksumOctal)
            THEN checksumOctal[i - 148]
            ELSE header[i]]

\* Math.ceil(contentBytes.length / 512) blocks holding the content
ContentBlocks(content) ==
    content \o Zeros(((Len(content) + TAR_HEADER_SIZE - 1) \div TAR_HEADER_SIZE)
                        * TAR_HEADER_SIZE - Len(content))

RECURSIVE MemberBlocks(_)
MemberBlocks(members) ==
    IF members = <<>> THEN <<>>
    ELSE HeaderBlock(Head(members)) \o ContentBlocks(Head(members).content)
            \o MemberBlocks(Tail(members))

createTarBuffer(a) ==
    LET whole == MemberBlocks(a.members) \o Zeros(a.trailer * TAR_HEADER_SIZE)
    IN  SubSeq(whole, 1, Max(Len(whole) - a.cut, 0))

\* the members the model builds archives from
Hello == <<104, 101, 108, 108, 111>>

FileHello == [name |-> <<97>>, size |-> SizeField(5), type |-> 48, content |-> Hello]
DirPlain == [name |-> <<100, 47>>, size |-> SizeField(0), type |-> 53, content |-> <<>>]
\* a file whose content fills one block exactly
FileBlock ==
    [name |-> <<98>>, size |-> SizeField(512), type |-> 48,
     content |-> [i \in 1..512 |-> 48]]
\* 'large.txt', 1000 bytes 'a': content of two blocks, the second not full
FileLarge ==
    [name |-> <<108, 97, 114, 103, 101, 46, 116, 120, 116>>, size |-> SizeField(1000),
     type |-> 48, content |-> [i \in 1..1000 |-> 97]]
Symlink == [name |-> <<115>>, size |-> SizeField(0), type |-> 50, content |-> <<>>]
LongLink == [name |-> <<120>>, size |-> SizeField(5), type |-> 76, content |-> Hello]
DirSized == [name |-> <<101, 47>>, size |-> SizeField(5), type |-> 53, content |-> Hello]
\* header blocks made by hand: size bytes that createTarBuffer writes for
\* no number (NULs, spaces, a digit 8, a sign in front)
FileNulSize == [name |-> <<110>>, size |-> Zeros(12), type |-> 48, content |-> <<>>]
FileSpaceSize ==
    [name |-> <<112>>, size |-> [i \in 1..12 |-> 32], type |-> 48, content |-> <<>>]
FileBadDigit ==
    [name |-> <<113>>, size |-> <<56>> \o Zeros(11), type |-> 48, content |-> <<>>]
FileMinus512 ==
    [name |-> <<109>>, size |-> SignedSizeField(<<49, 48, 48, 48>>), type |-> 48,
     content |-> <<>>]
FileMinus1024 ==
    [name |-> <<107>>, size |-> SignedSizeField(<<50, 48, 48, 48>>), type |-> 48,
     content |-> <<>>]
FileMinus1000 ==
    [name |-> <<111>>, size |-> SignedSizeField(<<49, 55, 53, 48>>), type |-> 48,
     content |-> <<>>]

\* what createTarBuffer writes for an entry given the size -512: the sign
\* stands behind the padding, '000000-1000 '
FileSizeMinus512 ==
    [name |-> <<118>>, size |-> SizeField(-512), type |-> 48, content |-> <<>>]
\* an entry given a name of 101 characters, of which 100 are written
FileLongName ==
    [name |-> [i \in 1..101 |-> 121], size |-> SizeField(0), type |-> 48,
     content |-> <<>>]

FileNulName ==
    [name |-> <<97, 0, 98>>, size |-> SizeField(5), type |-> 48, content |-> Hello]
HeaderNoName == [name |-> <<>>, size |-> SizeField(0), type |-> 48, content |-> <<>>]
FileAppleDouble ==
    [name |-> <<46, 95, 97>>, size |-> SizeField(5), type |-> 48, content |-> Hello]
DirPaxHeader ==
    [name |-> <<80, 97, 120, 72, 101, 97, 100, 101, 114, 47>>, size |-> SizeField(0),
     type |-> 53, content |-> <<>>]

\* members whose size field is the octal length of their content
WellFormedMembers ==
    { FileHello, DirPlain, FileBlock, FileLarge, Symlink, LongLink, DirSized }

\* members whose size field is no octal number, or a negative one
MalformedMembers ==
    { FileNulSize, FileSpaceSize, FileBadDigit, FileMinus512, FileMinus1024,
      FileMinus1000 }

\* members with a NUL inside the name, or with no name at all
OddNameMembers == { FileNulName, HeaderNoName }

\* the end of an archive: <<empty blocks written, bytes cut off>>
Endings == { <<2, 0>>, <<1, 0>>, <<0, 0>>, <<0, 312>>, <<0, 511>>, <<1, 1>> }

MaxMembers == 2
MaxIterations == 8
MaxSize == 64

RECURSIVE SeqsUpTo(_, _)
SeqsUpTo(S, n) ==
    IF n = 0 THEN { <<>> }
    ELSE LET shorter == SeqsUpTo(S, n - 1)
         IN  shorter \cup { Append(q, x) : q \in shorter, x \in S }

\* the sequences over S of length at most n with exactly one element of T
\* put in somewhere
WithOne(S, T, n) ==
    { SubSeq(q, 1, k) \o <<x>> \o SubSeq(q, k + 1, Len(q)) :
        <<q, k, x>> \in { <<q, k, x>> \in SeqsUpTo(S, n - 1) \X (0..(n - 1)) \X T :
                            k <= Len(q) } }

\* the members put around a malformed one
PlainMembers == { FileHello, DirPlain, FileBlock, Symlink }

\* archives of well-formed members, and archives with one member malformed
\* or oddly named among plain ones
Archives ==
    { [members |-> ms, trailer |-> e[1], cut |-> e[2]] :
        ms \in SeqsUpTo(WellFormedMembers, MaxMembers)
                  \cup WithOne(PlainMembers, MalformedMembers \cup OddNameMembers,
                               MaxMembers),
        e \in Endings }

\* the sizes written into a size field: the small ones, and some around a
\* block, with many digits and with a high digit
SizeSamples == (0..MaxSize) \cup { 511, 512, 513, 4095, 262144, 134217727, 134217728 }

\* a header whose size field is n in octal on 11 digits, then the byte `last`
FileOfSize(n, last) ==
    [name |-> <<122>>, size |-> OctalDigits(n, 11) \o <<last>>, type |-> 48,
     content |-> <<>>]

\* archives of one header with a sampled size, ended by a space or a NUL
SizeArchives ==
    { [members |-> <<FileOfSize(n, last)>>, trailer |-> 2, cut |-> 0] :
        n \in SizeSamples, last \in {32, 0} }

\* archives of an entry with a negative size or an overlong name, alone and
\* in front of a file
EdgeArchives ==
    { [members |-> ms, trailer |-> 2, cut |-> 0] :
        ms \in { <<FileSizeMinus512>>, <<FileSizeMinus512, FileHello>>,
                 <<FileLongName>>, <<FileLongName, FileHello>> } }

\* the archives handed to untgz in compressed form
UntgzMembers == { FileHello, DirPlain, FileAppleDouble, DirPaxHeader }

UntgzArchives ==
    { [members |-> ms, trailer |-> 2, cut |-> 0] :
        ms \in SeqsUpTo(UntgzMembers, MaxMembers + 1) \cup { <<FileMinus512>> } }

(***************************************************************************)
(* tarGetEntries as a function: the loop run to its return.  A run that    *)
(* has not returned after MaxIterations iterations with a name is reported *)
(* as not returned.                                                        *)
(***************************************************************************)
RECURSIVE Scan(_, _, _, _)
Scan(view, offset, entries, n) ==
    IF ~LoopCondition(view, offset)
    THEN [returned |-> TRUE, entries |-> entries, offset |-> offset, iterations |-> n]
    ELSE IF Len(entryName(view, offset)) = 0
    THEN [returned |-> TRUE, entries |-> entries, offset |-> offset,
          iterations |-> n + 1]
    ELSE IF n >= MaxIterations
    THEN [returned |-> FALSE, entries |-> entries, offset |-> offset,
          iterations |-> n]
    ELSE Scan(view, NextOffset(offset, entrySize(view, offset)),
              IF IsEntry(entryType(view, offset))
              THEN Append(entries, Entry(view, offset))
              ELSE entries,
              n + 1)

\* getEntries(tar), as untgz calls it
getEntries(arrayBuffer) == Scan(arrayBuffer, 0, <<>>, 0)

(***************************************************************************)
(* untgz (src/untgz.ts lines 5-16).                                        *)
(***************************************************************************)
\* String.prototype.includes
includes(string, searchString) ==
    \E k \in 0..(Len(string) - Len(searchString)) :
        \A i \in 1..Len(searchString) : string[k + i] = searchString[i]

\* '._' and 'PaxHeader'
DotUnderscore == <<46, 95>>
PaxHeader == <<80, 97, 120, 72, 101, 97, 100, 101, 114>>

\* a mutant of Kept: only the '._' names are removed
KeptButDotUnderscore(entry) == ~includes(entry.name, DotUnderscore)

\* the callback of filter: !(name.includes('._') || name.includes('PaxHeader'))
Kept(entry) == ~(includes(entry.name, DotUnderscore) \/ includes(entry.name, PaxHeader))

\* the value untgz resolves with
untgzResult(tar, found) == [arrayBuffer |-> tar, entries |-> SelectSeq(found, Kept)]

\* no value delivered
NoResult == [arrayBuffer |-> <<>>, entries |-> <<>>]

(***************************************************************************)
(* The memory of a result of _tarRead.  slice copies the bytes into a      *)
(* typed array with a buffer of its own: the result shares no memory with  *)
(* the argument (-1).  A result that is a window on the argument's memory  *)
(* (what subarray returns) starts at a position of the argument.           *)
(***************************************************************************)
\* a mutant of _tarReadBase: the result is a window on the argument
_tarReadBaseWindow(view, offset) == RelativeIndex(ToIntegerOrInfinity(offset), Len(view))

_tarReadBase(view, offset) == -1

(***************************************************************************)
(* The program.  A caller calls tarGetEntries(arrayBuffer), an iteration   *)
(* of its loop per step, then tarGetEntryData on the descriptors returned, *)
(* and may write into a result.  Or a caller calls untgz(blob): untgz      *)
(* awaits the decompression of the blob, and when that completes scans and *)
(* filters in one step; the caller then extracts from the value delivered. *)
(***************************************************************************)
VARIABLES
    archive,      \* what the buffer was built from
    arrayBuffer,  \* the argument of tarGetEntries and tarGetEntryData
    pc,           \* "loop": in tarGetEntries; "returned": it has returned;
                  \* "await": untgz waits for the decompressor; "resolved",
                  \* "rejected": untgz has; "scanning": untgz is in getEntries
    offset,       \* tarGetEntries' offset
    entries,      \* tarGetEntries' entries
    iterations,   \* the number of iterations of the loop so far
    picked,       \* the index of the descriptor whose bytes data holds as
                  \* they were returned, or 0
    data,         \* the result of the last tarGetEntryData
    blob,         \* the argument of untgz: "gzip", the archive compressed;
                  \* "garbage", no gzip stream; "none", untgz is not called
    result,       \* the value untgz has resolved with
    base          \* where in arrayBuffer the memory of data starts, or -1
                  \* when data has memory of its own

vars ==
    <<archive, arrayBuffer, pc, offset, entries, iterations, picked, data, blob,
      result, base>>

Init ==
    /\ offset = 0
    /\ entries = <<>>
    /\ iterations = 0
    /\ picked = 0
    /\ data = <<>>
    /\ result = NoResult
    /\ base = -1
    /\ \/ /\ archive \in Archives \cup SizeArchives \cup EdgeArchives
          /\ blob = "none"
          /\ arrayBuffer = createTarBuffer(archive)
          /\ pc = "loop"
       \/ /\ archive \in UntgzArchives
          /\ blob = "gzip"
          /\ arrayBuffer = <<>>
          /\ pc = "await"
       \/ /\ archive = [members |-> <<>>, trailer |-> 0, cut |-> 0]
          /\ blob = "garbage"
          /\ arrayBuffer = <<>>
          /\ pc = "await"

\* an iteration that reads a header with a name: lines 26-63
Iterate ==
    /\ pc = "loop"
    /\ iterations < MaxIterations
    /\ LoopCondition(arrayBuffer, offset)
    /\ Len(entryName(arrayBuffer, offset)) # 0
    /\ entries' = IF IsEntry(entryType(arrayBuffer, offset))
                  THEN Append(entries, Entry(arrayBuffer, offset))
                  ELSE entries
    /\ offset' = NextOffset(offset, entrySize(arrayBuffer, offset))
    /\ iterations' = iterations + 1
    /\ UNCHANGED <<archive, arrayBuffer, pc, picked, data, blob, result, base>>

\* a mutant of Break: the header without a name is passed over and the loop
\* goes on
BreakContinue ==
    /\ pc = "loop"
    /\ iterations < MaxIterations
    /\ LoopCondition(arrayBuffer, offset)
    /\ Len(entryName(arrayBuffer, offset)) = 0
    /\ offset' = offset + TAR_HEADER_SIZE
    /\ iterations' = iterations + 1
    /\ UNCHANGED <<archive, arrayBuffer, pc, entries, picked, data, blob, result, base>>

\* an iteration that reads an empty name: break, then return entries
Break ==
    /\ pc = "loop"
    /\ LoopCondition(arrayBuffer, offset)
    /\ Len(entryName(arrayBuffer, offset)) = 0
    /\ pc' = "returned"
    /\ iterations' = iterations + 1
    /\ UNCHANGED <<archive, arrayBuffer, offset, entries, picked, data, blob, result,
                   base>>

\* the loop condition is false: return entries
Exit ==
    /\ pc = "loop"
    /\ ~LoopCondition(arrayBuffer, offset)
    /\ pc' = "returned"
    /\ UNCHANGED <<archive, arrayBuffer, offset, entries, iterations, picked, data,
                   blob, result, base>>

\* tarGetEntryData(entries[i], arrayBuffer)
GetEntryData ==
    /\ pc = "returned"
    /\ \E i \in 1..Len(entries) :
        /\ picked' = i
        /\ data' = tarGetEntryData(entries[i], arrayBuffer)
        /\ base' = _tarReadBase(arrayBuffer, Plus(entries[i].offset, TAR_HEADER_SIZE))
    /\ UNCHANGED <<archive, arrayBuffer, pc, offset, entries, iterations, blob, result>>

\* the caller writes another value into the first byte of the result it
\* holds; the write reaches arrayBuffer when the result is a window on it
ModifyData ==
    /\ pc \in {"returned", "resolved"}
    /\ picked # 0
    /\ Len(data) > 0
    /\ LET v == (data[1] + 1) % 256
       IN  /\ data' = [data EXCEPT ![1] = v]
           /\ arrayBuffer' = IF base >= 0
                             THEN [arrayBuffer EXCEPT ![base + 1] = v]
                             ELSE arrayBuffer
    /\ picked' = 0
    /\ UNCHANGED <<archive, pc, offset, entries, iterations, blob, result, base>>

\* a mutant of DecompressionFails: the error is caught and untgz goes on
\* with an empty buffer
DecompressionFailsCaught ==
    /\ pc = "await"
    /\ blob = "garbage"
    /\ pc' = "resolved"
    /\ result' = untgzResult(<<>>, getEntries(<<>>).entries)
    /\ UNCHANGED <<archive, arrayBuffer, offset, entries, iterations, picked, data,
                   blob, base>>

\* the decompressor fails: the awaited promise rejects, and so does untgz
DecompressionFails ==
    /\ pc = "await"
    /\ blob = "garbage"
    /\ pc' = "rejected"
    /\ UNCHANGED <<archive, arrayBuffer, offset, entries, iterations, picked, data,
                   blob, result, base>>

\* the decompressor delivers the archive: untgz scans it, filters the
\* descriptors and resolves; it does not when getEntries does not return
Decompressed ==
    /\ pc = "await"
    /\ blob = "gzip"
    /\ LET tar  == createTarBuffer(archive)
           scan == getEntries(tar)
       IN  /\ arrayBuffer' = tar
           /\ offset' = scan.offset
           /\ entries' = scan.entries
           /\ iterations' = scan.iterations
           /\ pc' = IF scan.returned THEN "resolved" ELSE "scanning"
           /\ result' = IF scan.returned THEN untgzResult(tar, scan.entries)
                        ELSE result
    /\ UNCHANGED <<archive, picked, data, blob, base>>

\* untar(result.entries[i], result.arrayBuffer), by the caller of untgz
Untar ==
    /\ pc = "resolved"
    /\ \E i \in 1..Len(result.entries) :
        /\ picked' = i
        /\ data' = tarGetEntryData(result.entries[i], result.arrayBuffer)
        /\ base' = _tarReadBase(arrayBuffer,
                                Plus(result.entries[i].offset, TAR_HEADER_SIZE))
    /\ UNCHANGED <<archive, arrayBuffer, pc, offset, entries, iterations, blob, result>>

Next ==
    \/ Iterate
    \/ Break
    \/ Exit
    \/ GetEntryData
    \/ ModifyData
    \/ DecompressionFails
    \/ Decompressed
    \/ Untar

Spec == Init /\ [][Next]_vars

(***************************************************************************)
(* What an archive holds, computed from its members alone.                 *)
(***************************************************************************)
Returned == pc = "returned"

\* the buffer position of the header of member k: every member before it
\* takes a header block and the blocks of its content
RECURSIVE HeaderPosition(_, _)
HeaderPosition(members, k) ==
    IF k = 1 THEN 0
    ELSE HeaderPosition(members, k - 1) + TAR_HEADER_SIZE
            + Len(ContentBlocks(members[k - 1].content))

\* a header as the format asks: a name of 1 to 100 ASCII bytes without NUL
\* and the length of the content in octal in the size field
SoundHeader(m) ==
    /\ Len(m.name) \in 1..TAR_NAME_SIZE
    /\ \A i \in 1..Len(m.name) : m.name[i] \in 1..127
    /\ m.size = SizeField(Len(m.content))

IsFileOrDirectory(m) == m.type \in {48, 53}

\* every member a file or a directory with a sound header, two empty blocks
\* at the end and nothing cut off
WellFormed(a) ==
    /\ a.trailer = 2
    /\ a.cut = 0
    /\ \A k \in 1..Len(a.members) :
          SoundHeader(a.members[k]) /\ IsFileOrDirectory(a.members[k])

\* the descriptor of member k
Descriptor(members, k) ==
    [ name    |-> members[k].name,
      size    |-> Len(members[k].content),
      is_file |-> members[k].type = 48,
      offset  |-> HeaderPosition(members, k) ]

\* C1: for a well-formed archive, tarGetEntries returns one descriptor per
\* entry, in order, with the entry's name, size and kind, and tarGetEntryData
\* on each descriptor returns exactly the entry's content bytes.
C1_WellFormedRoundTrip ==
    (Returned /\ WellFormed(archive)) =>
        /\ Len(entries) = Len(archive.members)
        /\ \A k \in 1..Len(entries) :
              /\ entries[k].name = archive.members[k].name
              /\ entries[k].size = Len(archive.members[k].content)
              /\ entries[k].is_file = (archive.members[k].type = 48)
              /\ tarGetEntryData(entries[k], arrayBuffer) = archive.members[k].content
        /\ (picked # 0 => data = archive.members[picked].content)

\* C1 witness: a well-formed archive of two entries has been scanned and the
\* five content bytes of its second entry extracted.
C1_Witness ==
    /\ Returned
    /\ WellFormed(archive)
    /\ Len(archive.members) = 2
    /\ picked = 2
    /\ data = Hello

\* C2: the descriptors are returned in the order of their headers: of two
\* descriptors, the earlier one has the smaller offset.
C2_HeaderOrder ==
    \A i \in 1..Len(entries) : \A j \in 1..Len(entries) :
        i < j => entries[i].offset < entries[j].offset

\* C3: the loop decodes the header at the cursor whenever a whole header
\* block lies at the cursor (offset + 512 <= length); so the scan returns
\* with such a block at the cursor only by reading an empty name there.
C3_LastBlockExamined ==
    (Returned /\ ~IsNaN(offset) /\ offset >= 0
        /\ offset + TAR_HEADER_SIZE <= Len(arrayBuffer))
    => Len(entryName(arrayBuffer, offset)) = 0

\* a buffer of zero bytes only (of any length)
AllZero(view) == \A i \in 1..Len(view) : view[i] = 0

\* C4: for a buffer shorter than 512 bytes (the empty one too) and for a
\* buffer of zero bytes only, tarGetEntries returns the empty sequence: it
\* saves no descriptor, never goes round the loop past the first header and
\* is never stuck before returning.
C4_EmptyResult ==
    (Len(arrayBuffer) < TAR_HEADER_SIZE \/ AllZero(arrayBuffer)) =>
        /\ entries = <<>>
        /\ offset = 0
        /\ iterations <= 1
        /\ (pc = "loop" =>
               /\ iterations = 0
               /\ \/ ~LoopCondition(arrayBuffer, offset)
                  \/ Len(entryName(arrayBuffer, offset)) = 0)

\* C4 witness: the scan has returned nothing for a buffer shorter than 512
\* bytes that begins with the bytes of a header.
C4_Witness ==
    /\ Returned
    /\ Len(arrayBuffer) \in 157..(TAR_HEADER_SIZE - 1)
    /\ arrayBuffer[1] # 0
    /\ arrayBuffer[TAR_TYPE_OFFSET + 1] = 53
    /\ entries = <<>>

\* C5: the loop of tarGetEntries goes round at most once per 512-byte block
\* of the buffer.
C5_IterationsBounded == iterations <= Len(arrayBuffer) \div TAR_HEADER_SIZE

\* a size field of NULs only, of spaces only, or starting with a character
\* that is no octal digit, no sign, no NUL and no white space
MalformedSizeField(field) ==
    \/ \A i \in 1..Len(field) : field[i] = 0
    \/ \A i \in 1..Len(field) : field[i] = 32
    \/ /\ Len(field) > 0
       /\ field[1] \notin (48..55) \cup {0, 43, 45, 9, 10, 11, 12, 13, 32, 160}

\* the size field of the header at the cursor
SizeFieldAt(view, at) ==
    [i \in 1..TAR_SIZE_SIZE |-> view[at + TAR_SIZE_OFFSET + i]]

\* C6: an iteration on a header whose size field is malformed takes the size
\* to be zero: a descriptor it saves has size 0 and the cursor moves on by
\* exactly 512.
C6_MalformedSizeIsZero ==
    [][ ( /\ Iterate
          /\ offset >= 0
          /\ MalformedSizeField(SizeFieldAt(arrayBuffer, offset)) )
        => /\ offset' = offset + TAR_HEADER_SIZE
           /\ Len(entries') > Len(entries) => entries'[Len(entries')].size = 0 ]_vars

\* C7: every descriptor's offset is a non-negative multiple of 512 below the
\* length of the buffer.
C7_OffsetAligned ==
    \A k \in 1..Len(entries) :
        /\ entries[k].offset >= 0
        /\ entries[k].offset % TAR_HEADER_SIZE = 0
        /\ entries[k].offset < Len(arrayBuffer)

\* C8: tarGetEntryData on a returned descriptor e gives exactly the bytes at
\* positions [e.offset + 512, e.offset + 512 + e.size) of the buffer, e.size
\* of them.
C8_ExactPayload ==
    (Returned /\ picked # 0) =>
        LET e == entries[picked] IN
        /\ Len(data) = e.size
        /\ \A k \in 1..Len(data) :
              /\ e.offset + TAR_HEADER_SIZE + k \in 1..Len(arrayBuffer)
              /\ data[k] = arrayBuffer[e.offset + TAR_HEADER_SIZE + k]

\* C9: every Directory descriptor has size 0 and tarGetEntryData on it
\* returns no byte.
C9_DirectoryEmpty ==
    /\ \A k \in 1..Len(entries) : ~entries[k].is_file => entries[k].size = 0
    /\ (Returned /\ picked # 0 /\ ~entries[picked].is_file) => Len(data) = 0

\* sound headers of any type, two empty blocks at the end, nothing cut off
WellFormedAnyType(a) ==
    /\ a.trailer = 2
    /\ a.cut = 0
    /\ \A k \in 1..Len(a.members) : SoundHeader(a.members[k])

\* the positions, in order, of the members that are files or directories
RECURSIVE Recognized(_, _)
Recognized(members, k) ==
    IF k > Len(members) THEN <<>>
    ELSE (IF IsFileOrDirectory(members[k]) THEN <<k>> ELSE <<>>)
            \o Recognized(members, k + 1)

\* C10: a header of another type than '0' and '5' gives no descriptor and
\* the cursor passes its header and padded content as for a file: in an
\* archive of sound headers the scan returns exactly the files and
\* directories, in order, each with its name, size, kind and the offset of
\* its header, those behind a header of another type too.
C10_UnknownTypeSkipped ==
    ( /\ Returned
      /\ WellFormedAnyType(archive)
      /\ \E k \in 1..Len(archive.members) : ~IsFileOrDirectory(archive.members[k]) )
    =>
        LET kept == Recognized(archive.members, 1) IN
        /\ Len(entries) = Len(kept)
        /\ \A n \in 1..Len(kept) : entries[n] = Descriptor(archive.members, kept[n])

\* C10 witness: the scan has returned the file behind a header of type 'L'
\* with five content bytes, and nothing for that header.
C10_Witness ==
    /\ Returned
    /\ WellFormedAnyType(archive)
    /\ archive.members = <<LongLink, FileHello>>
    /\ Len(entries) = 1
    /\ entries[1].offset = 2 * TAR_HEADER_SIZE
    /\ entries[1].name = <<97>>

\* C11: tarGetEntries and tarGetEntryData return a value for every buffer,
\* whatever the header bytes.  A call of tarGetEntries returns only if no
\* iteration leaves the cursor where it found it: the loop reads nothing
\* but the buffer and the cursor, so such an iteration is repeated for ever,
\* and when the header is a file or a directory each round saves one more
\* descriptor until the sequence cannot grow.
C11_CallReturns == [][Iterate => offset' # offset]_vars

(***************************************************************************)
(* untgz, told from the members of the archive that was compressed.        *)
(***************************************************************************)
\* pattern occurs in name as a run of consecutive code points
HasSubstring(name, pattern) ==
    \E i \in 1..(Len(name) + 1) : \E j \in 0..Len(name) :
        SubSeq(name, i, j) = pattern

\* the positions, in order, of the members other than the two whose names
\* hold '._' or 'PaxHeader'
RECURSIVE NotGarbage(_, _)
NotGarbage(members, k) ==
    IF k > Len(members) THEN <<>>
    ELSE (IF members[k] \in {FileAppleDouble, DirPaxHeader} THEN <<>> ELSE <<k>>)
            \o NotGarbage(members, k + 1)

\* C12: the entries untgz resolves with hold no name containing '._' or
\* 'PaxHeader' and are the descriptors of the scan of the decompressed
\* buffer without those: the others in their order, each with its name,
\* size, kind and offset, and extraction from the delivered arrayBuffer
\* returns the content of the entry.
C12_FilteredEntries ==
    (pc = "resolved" /\ WellFormed(archive)) =>
        LET kept == NotGarbage(archive.members, 1) IN
        /\ result.arrayBuffer = createTarBuffer(archive)
        /\ Len(entries) = Len(archive.members)
        /\ \A n \in 1..Len(result.entries) :
              /\ ~HasSubstring(result.entries[n].name, <<46, 95>>)
              /\ ~HasSubstring(result.entries[n].name,
                               <<80, 97, 120, 72, 101, 97, 100, 101, 114>>)
        /\ Len(result.entries) = Len(kept)
        /\ \A n \in 1..Len(kept) :
              /\ result.entries[n] = Descriptor(archive.members, kept[n])
              /\ result.entries[n] = entries[kept[n]]
              /\ tarGetEntryData(result.entries[n], result.arrayBuffer)
                    = archive.members[kept[n]].content
        /\ (picked # 0 => data = archive.members[kept[picked]].content)

\* C12 witness: untgz has resolved for an archive of three entries whose
\* second is named '._a': two descriptors are delivered and the content of
\* the first has been extracted.
C12_Witness ==
    /\ pc = "resolved"
    /\ archive.members = <<FileHello, FileAppleDouble, DirPlain>>
    /\ Len(entries) = 3
    /\ Len(result.entries) = 2
    /\ result.entries[2].name = <<100, 47>>
    /\ result.entries[2].offset = 4 * TAR_HEADER_SIZE
    /\ picked = 1
    /\ data = Hello

\* C13: when the decompressor fails, untgz fails and delivers nothing: it
\* is rejected without a scan, without a buffer and without entries, and
\* nothing can be extracted; while untgz waits for the decompressor no
\* iteration of the scan has run.
C13_DecompressorFailure ==
    /\ blob = "garbage" =>
          /\ pc \in {"await", "rejected"}
          /\ result = NoResult
          /\ arrayBuffer = <<>>
          /\ entries = <<>>
          /\ iterations = 0
          /\ picked = 0
    /\ pc = "await" =>
          /\ result = NoResult
          /\ entries = <<>>
          /\ iterations = 0

\* C13 witness: untgz has been rejected for a blob that is no gzip stream.
C13_Witness == pc = "rejected" /\ blob = "garbage" /\ result = NoResult

\* C15: an iteration on a header with decoded size S moves the cursor from
\* c to the smallest multiple of 512 that is at least c + 512 + S (to
\* c + 512 + S itself when that is a multiple of 512), so the cursor is a
\* multiple of 512 when the next iteration starts.
C15_CursorRounding ==
    [][ (Iterate /\ ~IsNaN(entrySize(arrayBuffer, offset))) =>
            LET advanced == offset + TAR_HEADER_SIZE + entrySize(arrayBuffer, offset)
            IN  /\ offset' % TAR_HEADER_SIZE = 0
                /\ offset' >= advanced
                /\ offset' < advanced + TAR_HEADER_SIZE ]_vars

\* sound headers, but for members without a name
SoundButNames(a) ==
    /\ a.trailer = 2
    /\ a.cut = 0
    /\ \A k \in 1..Len(a.members) :
          a.members[k].name = <<>> \/ SoundHeader(a.members[k])
    /\ \A k \in 1..Len(a.members) :
          a.members[k].size = SizeField(Len(a.members[k].content))

\* the position of the first member without a name; without one, the
\* position after the last member, where the first empty block is
RECURSIVE FirstNameless(_, _)
FirstNameless(members, k) ==
    IF k > Len(members) \/ members[k].name = <<>> THEN k
    ELSE FirstNameless(members, k + 1)

\* C16: the scan stops at the first header block with an empty name: every
\* descriptor returned has a name, and in an archive of sound headers the
\* descriptors returned are those of the files and directories before the
\* first block without a name, the loop having read that block as its last
\* (one such block, and nothing behind it, headers or a second empty block).
C16_StopsAtEmptyName ==
    /\ \A k \in 1..Len(entries) : Len(entries[k].name) > 0
    /\ (Returned /\ SoundButNames(archive)) =>
          LET stop == FirstNameless(archive.members, 1)
              kept == Recognized(SubSeq(archive.members, 1, stop - 1), 1)
          IN  /\ iterations = stop
              /\ offset = HeaderPosition(archive.members, stop)
              /\ Len(entries) = Len(kept)
              /\ \A n \in 1..Len(kept) :
                    entries[n] = Descriptor(archive.members, kept[n])

\* C16 witness: the scan of an archive whose first header has no name and
\* whose second is a sound file header has returned nothing after one
\* iteration.
C16_Witness ==
    /\ Returned
    /\ archive.members = <<HeaderNoName, FileHello>>
    /\ archive.trailer = 2
    /\ archive.cut = 0
    /\ iterations = 1
    /\ entries = <<>>

\* a size field as the format writes it: 11 octal digits, then a space or
\* a NUL
IsOctalField(field) ==
    /\ \A i \in 1..(TAR_SIZE_SIZE - 1) : field[i] \in 48..55
    /\ field[TAR_SIZE_SIZE] \in {32, 0}

\* C17: the size decoded from a size field of 11 octal digits followed by
\* a space or a NUL is the number the digits write in base 8: the size of
\* every descriptor saved for a header with such a field is a number n >= 0
\* whose 11 octal digits are the digits of the field.
C17_OctalSize ==
    \A k \in 1..Len(entries) :
        (entries[k].offset >= 0
            /\ IsOctalField(SizeFieldAt(arrayBuffer, entries[k].offset))) =>
            /\ ~IsNaN(entries[k].size)
            /\ entries[k].size >= 0
            /\ OctalDigits(entries[k].size, TAR_SIZE_SIZE - 1)
                  = SubSeq(SizeFieldAt(arrayBuffer, entries[k].offset), 1,
                           TAR_SIZE_SIZE - 1)

\* C17 witness: a header whose size field is '00777777777' followed by a
\* NUL has been scanned and its descriptor has size 134217727.
C17_Witness ==
    /\ Returned
    /\ archive.members = <<FileOfSize(134217727, 0)>>
    /\ Len(entries) = 1
    /\ entries[1].size = 134217727

\* the bytes of the name field of the header at position `at`
NameFieldAt(view, at) == [i \in 1..TAR_NAME_SIZE |-> view[at + TAR_NAME_OFFSET + i]]

\* C18: the name of a descriptor is its name field decoded with only the
\* NULs at the end stripped, a NUL in front of another byte of the field
\* being kept.
C18_TrailingNulStripped ==
    \A k \in 1..Len(entries) :
        entries[k].offset >= 0 =>
            entries[k].name
                = StripTrailingNul(TextDecoderUtf8(
                      NameFieldAt(arrayBuffer, entries[k].offset)))

(***************************************************************************)
(* The bytes a scan depends on, and buffers that differ in the others.     *)
(***************************************************************************)
\* the cursor positions at which the loop reads a header
RECURSIVE Cursors(_, _, _)
Cursors(view, at, n) ==
    IF ~LoopCondition(view, at) THEN <<>>
    ELSE IF Len(entryName(view, at)) = 0 \/ n >= MaxIterations THEN <<at>>
    ELSE <<at>> \o Cursors(view, NextOffset(at, entrySize(view, at)), n + 1)

\* the elements of view that slice selects for a field of `size` bytes at
\* `at`: <<first, last>>
FieldRange(view, at, size) ==
    << RelativeIndex(at, Len(view)) + 1, RelativeIndex(at + size, Len(view)) >>

\* the fields the _tarRead calls of the loop select: the name field of
\* every header the cursor visits, and the size and type fields of those
\* whose name is not empty (on an empty name the loop is left at line 33)
FieldsRead(view) ==
    LET cursors == Cursors(view, 0, 0)
        named   == { j \in 1..Len(cursors) : Len(entryName(view, cursors[j])) # 0 }
    IN  { FieldRange(view, cursors[j] + TAR_NAME_OFFSET, TAR_NAME_SIZE) :
            j \in 1..Len(cursors) }
        \cup { FieldRange(view, cursors[j] + f[1], f[2]) :
                 j \in named,
                 f \in { <<TAR_SIZE_OFFSET, TAR_SIZE_SIZE>>,
                         <<TAR_TYPE_OFFSET, TAR_TYPE_SIZE>> } }

InFields(i, fields) == \E f \in fields : f[1] <= i /\ i <= f[2]

\* view with every byte outside the fields replaced by another value
OthersChanged(view, fields) ==
    [i \in 1..Len(view) |-> IF InFields(i, fields) THEN view[i] ELSE 255 - view[i]]

\* view with the bytes 148 to 155 of every block replaced by other values,
\* but for those in the fields
ChecksumsChanged(view, fields) ==
    [i \in 1..Len(view) |->
        IF (i - 1) % TAR_HEADER_SIZE \in 148..155 /\ ~InFields(i, fields)
        THEN 255 - view[i]
        ELSE view[i]]

\* C19: the descriptors depend only on the name, size and type fields of
\* the headers the cursor visits: the scan of a buffer of the same length
\* with other bytes in the checksum fields, and the scan of one with other
\* bytes everywhere outside those fields, return the descriptors and end
\* at the cursor of the scan of the buffer itself.
C19_OnlyFieldsRead ==
    (Returned /\ picked = 0 /\ data = <<>>) =>
        LET fields == FieldsRead(arrayBuffer)
        IN  \A other \in { ChecksumsChanged(arrayBuffer, fields),
                           OthersChanged(arrayBuffer, fields) } :
                LET scan == getEntries(other)
                IN  /\ Len(other) = Len(arrayBuffer)
                    /\ scan.returned
                    /\ scan.entries = entries
                    /\ scan.offset = offset

\* C19 witness: an archive of a file and a directory has been scanned into
\* two descriptors, and the buffer with other bytes in its checksum fields,
\* a different buffer, is scanned into the same two.
C19_Witness ==
    /\ Returned
    /\ picked = 0
    /\ data = <<>>
    /\ archive = [members |-> <<FileHello, DirPlain>>, trailer |-> 2, cut |-> 0]
    /\ Len(entries) = 2
    /\ ChecksumsChanged(arrayBuffer, FieldsRead(arrayBuffer)) # arrayBuffer
    /\ getEntries(ChecksumsChanged(arrayBuffer, FieldsRead(arrayBuffer))).entries
          = entries

\* C20: no step of a scan or of an extraction changes a byte of the buffer,
\* and the bytes returned by an extraction are a copy: when the caller
\* writes into a result, the result changes and the buffer does not.  (The
\* buffer of untgz comes into being when the decompressor delivers it.)
C20_BufferUnchanged ==
    [][ /\ pc # "await" => arrayBuffer' = arrayBuffer
        /\ ModifyData => (data' # data /\ base = -1) ]_vars

\* C20 witness: the caller of untgz has overwritten the first byte of the
\* bytes extracted for the file 'a', and the buffer still holds 'h' there
\* and is the archive as built.
C20_Witness ==
    /\ pc = "resolved"
    /\ archive.members = <<FileHello>>
    /\ picked = 0
    /\ data = <<105, 101, 108, 108, 111>>
    /\ arrayBuffer[TAR_HEADER_SIZE + 1] = 104
    /\ arrayBuffer = createTarBuffer(archive)

(***************************************************************************)
(* Several callers at once.  Every variable of a call (pc, offset,         *)
(* entries, iterations, picked, data, blob, result, base) is here a        *)
(* function of the caller; archive and arrayBuffer are shared by the       *)
(* callers of tarGetEntries and tarGetEntryData, and each call of untgz    *)
(* is handed by the decompressor a buffer of its own with the same bytes.  *)
(* The steps of the callers are interleaved in any order.                  *)
(***************************************************************************)
NumCallers == 2

Callers == 1..NumCallers

\* the archives the callers work on
ConcurrentArchives ==
    { [members |-> ms, trailer |-> 2, cut |-> 0] :
        ms \in { <<>>, <<FileHello>>, <<FileHello, DirPlain>>, <<Symlink, FileHello>>,
                 <<FileAppleDouble, FileHello>> } }
    \cup { [members |-> <<FileHello, DirPlain>>, trailer |-> 1, cut |-> 0],
           [members |-> <<DirPlain, FileHello>>, trailer |-> 0, cut |-> 312] }

ConcurrentInit ==
    /\ archive \in ConcurrentArchives
    /\ arrayBuffer = createTarBuffer(archive)
    /\ blob \in [Callers -> {"none", "gzip", "garbage"}]
    /\ pc = [c \in Callers |-> IF blob[c] = "none" THEN "loop" ELSE "await"]
    /\ offset = [c \in Callers |-> 0]
    /\ entries = [c \in Callers |-> <<>>]
    /\ iterations = [c \in Callers |-> 0]
    /\ picked = [c \in Callers |-> 0]
    /\ data = [c \in Callers |-> <<>>]
    /\ result = [c \in Callers |-> NoResult]
    /\ base = [c \in Callers |-> -1]

\* a mutant of IterateOf: entries is one array for all the calls
IterateOfShared(c) ==
    /\ pc[c] = "loop"
    /\ iterations[c] < MaxIterations
    /\ LoopCondition(arrayBuffer, offset[c])
    /\ Len(entryName(arrayBuffer, offset[c])) # 0
    /\ entries' = [d \in Callers |->
                     IF IsEntry(entryType(arrayBuffer, offset[c]))
                     THEN Append(entries[c], Entry(arrayBuffer, offset[c]))
                     ELSE entries[c]]
    /\ offset' = [offset EXCEPT ![c] = NextOffset(@, entrySize(arrayBuffer, @))]
    /\ iterations' = [iterations EXCEPT ![c] = @ + 1]
    /\ UNCHANGED <<archive, arrayBuffer, pc, picked, data, blob, result, base>>

\* caller c's iteration on a header with a name: lines 26-63
IterateOf(c) ==
    /\ pc[c] = "loop"
    /\ iterations[c] < MaxIterations
    /\ LoopCondition(arrayBuffer, offset[c])
    /\ Len(entryName(arrayBuffer, offset[c])) # 0
    /\ entries' = [entries EXCEPT ![c] =
                     IF IsEntry(entryType(arrayBuffer, offset[c]))
                     THEN Append(@, Entry(arrayBuffer, offset[c]))
                     ELSE @]
    /\ offset' = [offset EXCEPT ![c] = NextOffset(@, entrySize(arrayBuffer, @))]
    /\ iterations' = [iterations EXCEPT ![c] = @ + 1]
    /\ UNCHANGED <<archive, arrayBuffer, pc, picked, data, blob, result, base>>

\* caller c's iteration on an empty name: break, then return entries
BreakOf(c) ==
    /\ pc[c] = "loop"
    /\ LoopCondition(arrayBuffer, offset[c])
    /\ Len(entryName(arrayBuffer, offset[c])) = 0
    /\ pc' = [pc EXCEPT ![c] = "returned"]
    /\ iterations' = [iterations EXCEPT ![c] = @ + 1]
    /\ UNCHANGED <<archive, arrayBuffer, offset, entries, picked, data, blob, result,
                   base>>

\* caller c's loop condition is false: return entries
ExitOf(c) ==
    /\ pc[c] = "loop"
    /\ ~LoopCondition(arrayBuffer, offset[c])
    /\ pc' = [pc EXCEPT ![c] = "returned"]
    /\ UNCHANGED <<archive, arrayBuffer, offset, entries, iterations, picked, data,
                   blob, result, base>>

\* caller c's tarGetEntryData(entries[i], arrayBuffer)
GetEntryDataOf(c) ==
    /\ pc[c] = "returned"
    /\ \E i \in 1..Len(entries[c]) :
        /\ picked' = [picked EXCEPT ![c] = i]
        /\ data' = [data EXCEPT ![c] = tarGetEntryData(entries[c][i], arrayBuffer)]
        /\ base' = [base EXCEPT ![c] =
                      _tarReadBase(arrayBuffer,
                                   Plus(entries[c][i].offset, TAR_HEADER_SIZE))]
    /\ UNCHANGED <<archive, arrayBuffer, pc, offset, entries, iterations, blob, result>>

\* the decompressor of caller c's untgz fails: that call is rejected
DecompressionFailsOf(c) ==
    /\ pc[c] = "await"
    /\ blob[c] = "garbage"
    /\ pc' = [pc EXCEPT ![c] = "rejected"]
    /\ UNCHANGED <<archive, arrayBuffer, offset, entries, iterations, picked, data,
                   blob, result, base>>

\* the decompressor delivers the archive to caller c's untgz, which scans
\* the buffer it was handed, filters and resolves
DecompressedOf(c) ==
    /\ pc[c] = "await"
    /\ blob[c] = "gzip"
    /\ LET tar  == createTarBuffer(archive)
           scan == getEntries(tar)
       IN  /\ offset' = [offset EXCEPT ![c] = scan.offset]
           /\ entries' = [entries EXCEPT ![c] = scan.entries]
           /\ iterations' = [iterations EXCEPT ![c] = scan.iterations]
           /\ pc' = [pc EXCEPT ![c] = IF scan.returned THEN "resolved" ELSE "scanning"]
           /\ result' = [result EXCEPT ![c] =
                           IF scan.returned THEN untgzResult(tar, scan.entries) ELSE @]
    /\ UNCHANGED <<archive, arrayBuffer, picked, data, blob, base>>

\* untar(result.entries[i], result.arrayBuffer), by caller c of untgz
UntarOf(c) ==
    /\ pc[c] = "resolved"
    /\ \E i \in 1..Len(result[c].entries) :
        /\ picked' = [picked EXCEPT ![c] = i]
        /\ data' = [data EXCEPT ![c] =
                      tarGetEntryData(result[c].entries[i], result[c].arrayBuffer)]
        /\ base' = [base EXCEPT ![c] =
                      _tarReadBase(result[c].arrayBuffer,
                                   Plus(result[c].entries[i].offset, TAR_HEADER_SIZE))]
    /\ UNCHANGED <<archive, arrayBuffer, pc, offset, entries, iterations, blob, result>>

ConcurrentNext ==
    \E c \in Callers :
        \/ IterateOf(c)
        \/ BreakOf(c)
        \/ ExitOf(c)
        \/ GetEntryDataOf(c)
        \/ DecompressionFailsOf(c)
        \/ DecompressedOf(c)
        \/ UntarOf(c)

ConcurrentSpec == ConcurrentInit /\ [][ConcurrentNext]_vars

\* p is an initial part of q
IsPrefix(p, q) == Len(p) <= Len(q) /\ SubSeq(q, 1, Len(p)) = p

\* C21: with the steps of several callers interleaved in any order, every
\* call gives what it gives when run alone: a scan under way has saved the
\* first descriptors of the scan run alone and returns all of them, untgz
\* resolves with the filtered scan of the archive, and every extraction
\* returns the bytes its descriptor selects, whatever the other callers
\* have done in between.
C21_NoInterference ==
    LET alone == getEntries(createTarBuffer(archive))
    IN  \A c \in Callers :
            /\ pc[c] = "loop" => IsPrefix(entries[c], alone.entries)
            /\ pc[c] = "returned" =>
                  /\ entries[c] = alone.entries
                  /\ offset[c] = alone.offset
                  /\ picked[c] # 0 =>
                        data[c] = tarGetEntryData(alone.entries[picked[c]],
                                                  createTarBuffer(archive))
            /\ pc[c] = "resolved" =>
                  /\ result[c] = untgzResult(createTarBuffer(archive), alone.entries)
                  /\ picked[c] # 0 =>
                        data[c] = tarGetEntryData(result[c].entries[picked[c]],
                                                  createTarBuffer(archive))
            /\ pc[c] \in {"await", "rejected"} =>
                  (entries[c] = <<>> /\ result[c] = NoResult /\ picked[c] = 0)

\* C21 witness: while caller 1 is in the loop of its scan with one of two
\* descriptors saved, caller 2, whose untgz was suspended, has resolved
\* with both descriptors and has extracted the five bytes of the first.
C21_Witness ==
    /\ archive.members = <<FileHello, DirPlain>>
    /\ archive.trailer = 2
    /\ pc[1] = "loop"
    /\ offset[1] = 2 * TAR_HEADER_SIZE
    /\ Len(entries[1]) = 1
    /\ pc[2] = "resolved"
    /\ Len(result[2].entries) = 2
    /\ picked[2] = 1
    /\ data[2] = Hello

\* C22: the regions of the descriptors do not overlap and no header is
\* reported twice: each descriptor starts at or behind the end of the
\* header and content of the one before it, so at a greater offset, and
\* there are at most as many descriptors as the buffer has whole blocks.
C22_RegionsDisjoint ==
    /\ \A k \in 1..(Len(entries) - 1) :
          /\ ~Less(entries[k + 1].offset,
                   Plus(entries[k].offset + TAR_HEADER_SIZE, entries[k].size))
          /\ entries[k + 1].offset > entries[k].offset
    /\ Len(entries) <= Len(arrayBuffer) \div TAR_HEADER_SIZE

\* the lengths of the prefixes compared: whole blocks, and a block cut
\* behind its first byte, inside its header and before its last byte
PrefixLengths(view) ==
    { n \in 0..Len(view) : n % TAR_HEADER_SIZE \in {0, 1, 200, TAR_HEADER_SIZE - 1} }

\* C23: the scan is prefix-stable: the descriptors returned for a prefix of
\* the buffer are the first descriptors returned for the buffer, the same
\* and in the same order.
C23_PrefixStable ==
    (Returned /\ picked = 0 /\ data = <<>>) =>
        \A n \in PrefixLengths(arrayBuffer) :
            LET scan == getEntries(SubSeq(arrayBuffer, 1, n))
            IN  scan.returned => IsPrefix(scan.entries, entries)

=============================================================================
